---- MODULE Spec2Model ----
(***************************************************************************)
(* A model of csim.c, a trace-driven simulator of a set-associative cache  *)
(* with FIFO and LRU replacement.                                          *)
(*                                                                         *)
(* The program state is the globals of csim.c: the geometry S, K, B, the   *)
(* policy, the shift amounts S_temp and B_temp, setMask, the cache, the    *)
(* two policy clocks and the three statistics counters, and with them the *)
(* verbose flag, the stream trace_fp, the heap and the statement main is  *)
(* at.  The operations are the cases of parse_arguments, the statements   *)
(* of main, access_data and one iteration of the loop of replay_trace.    *)
(*                                                                         *)
(* Addresses are unsigned long in the source (64 bits) and the policy      *)
(* clocks unsigned int (32 bits).  The model keeps the wrap-around of      *)
(* unsigned arithmetic but at widths of AddrBits and ClockBits bits.       *)
(***************************************************************************)
EXTENDS Integers, Sequences, FiniteSets, TLC

VARIABLES
    S,              \* number of sets                     (csim.c:39)
    K,              \* lines per set                      (csim.c:40)
    B,              \* bytes per line                     (csim.c:41)
    policy,         \* FIFO or LRU                        (csim.c:44)
    S_temp,         \* shift amount, never assigned       (csim.c:49)
    B_temp,         \* INT_LOG2(B)                        (csim.c:48,114)
    setMask,        \* S - 1                              (csim.c:126,144)
    cache,          \* cache[set][line]                   (csim.c:133)
    num_fifo,       \* FIFO clock                         (csim.c:128)
    num_lru,        \* LRU clock                          (csim.c:129)
    miss_count,     \*                                    (csim.c:170)
    hit_count,      \*                                    (csim.c:171)
    eviction_count, \*                                    (csim.c:172)
    trace,          \* the addresses of a scripted trace (<<>>: free input)
    pc,             \* position of the next scripted access in trace
    rec,            \* the record (or single call) replayed by the last step
    calls,          \* the arguments of the access_data calls of the last step
    outs,           \* what verbose mode prints for them: Hit/Miss/MissEvict
    ncalls,         \* the number of access_data calls so far
    ref,            \* reference cache fed with the same calls
    verbose,        \* int verbose                       (csim.c:38)
    trace_fp,       \* FILE *trace_fp: a handle of handles, 0 for NULL (csim.c:46)
    ctl,            \* the statement of main the process is at (csim.c:338)
    status,         \* the exit status, once ctl = "exited"
    nopts,          \* the number of options getopt has returned
    handles,        \* every stream fopen returned: "open" or "closed"
    heap,           \* the blocks malloc returned and how often each was freed
    file,           \* the characters of the trace file
    pos,            \* the position of the stream trace_fp in file
    before,         \* the cache before the last call, in the runs that wrap the clock
    perset          \* the cache with one clock per set, fed with the same calls

vars == <<S, K, B, policy, S_temp, B_temp, setMask, cache, num_fifo, num_lru,
          miss_count, hit_count, eviction_count, trace, pc, rec, calls, outs,
          ncalls, ref, verbose, trace_fp, ctl, status, nopts, handles, heap,
          file, pos, before, perset>>

process == <<verbose, trace_fp, ctl, status, nopts, handles, heap>>

input == <<file, pos>>

geometry == <<S, K, B, policy, S_temp, B_temp, setMask>>

----------------------------------------------------------------------------
(* Bounds of the model *)

AddrBits == 6        \* width of an address in the model (64 in the source)
MaxK == 3            \* largest associativity
MaxAccesses == 4     \* access_data calls in one run of free calls
MaxReplayCalls == 3  \* access_data calls in one run of free records
MaxSize == 4         \* largest length field of a trace record
MaxScript == 4       \* longest scripted trace of the generic families
ClockBits == 3       \* width of a policy clock in the model (32 in the source)
MaxClockCalls == 10  \* access_data calls in one run that wraps the clock
MaxArgs == 6         \* options on one command line
MaxLines == 3        \* lines of one trace file

(* typedef enum { FIFO = 1, LRU = 2 } Policy; *)
FIFO == 1
LRU == 2

----------------------------------------------------------------------------
(* Integer helpers *)

RECURSIVE Pow2(_)
Pow2(n) == IF n <= 0 THEN 1 ELSE 2 * Pow2(n - 1)

AddrMod == Pow2(AddrBits)
Addrs == 0 .. (AddrMod - 1)

(* #define INT_LOG2(x) (31 - __builtin_clz(x)), for x > 0 *)
RECURSIVE INT_LOG2(_)
INT_LOG2(x) == IF x <= 1 THEN 0 ELSE 1 + INT_LOG2(x \div 2)

(* x >> n on unsigned long *)
ShiftRight(x, n) == x \div Pow2(n)

(* ++num_lru, ++num_fifo: the clocks are unsigned int and wrap to 0 *)
ClockMod == Pow2(ClockBits)

(* the increment of a clock two bits wide *)
IncrNarrow(clock) == (clock + 1) % 4

Incr(clock) == (clock + 1) % ClockMod

(* x & y on unsigned long *)
RECURSIVE BitAnd(_, _)
BitAnd(x, y) ==
    IF x = 0 \/ y = 0 THEN 0
    ELSE (x % 2) * (y % 2) + 2 * BitAnd(x \div 2, y \div 2)

----------------------------------------------------------------------------
(* The simulation state access_data works on *)

(* allocate_cache that sets every valid bit *)
EmptyCacheValid(nsets, nlines) ==
    [set \in 0 .. (nsets - 1) |->
        [idx \in 0 .. (nlines - 1) |->
            [tagBits |-> 0, countBlock |-> 0, validBits |-> 1]]]

(* allocate_cache: every line starts with tag 0, count 0, invalid *)
EmptyCache(nsets, nlines) ==
    [set \in 0 .. (nsets - 1) |->
        [idx \in 0 .. (nlines - 1) |->
            [tagBits |-> 0, countBlock |-> 0, validBits |-> 0]]]

(* the heap before allocate_cache, after it, and after free_cache: the set
   array and, for every set, how often its block was freed *)
NoHeap == [array |-> "none", sets |-> <<>>]

Allocated(nsets) == [array |-> "live", sets |-> [set \in 0 .. (nsets - 1) |-> 0]]

Freed(h) ==
    [array |-> "freed", sets |-> [set \in DOMAIN h.sets |-> h.sets[set] + 1]]

(* the globals access_data reads and writes, at program start *)
InitState(nsets, nlines) ==
    [cache |-> EmptyCache(nsets, nlines),
     num_fifo |-> 1, num_lru |-> 1,
     miss_count |-> 0, hit_count |-> 0, eviction_count |-> 0,
     outs |-> <<>>]

(* the same globals in the current state; outs restarts with every step *)
State ==
    [cache |-> cache, num_fifo |-> num_fifo, num_lru |-> num_lru,
     miss_count |-> miss_count, hit_count |-> hit_count,
     eviction_count |-> eviction_count, outs |-> <<>>]

----------------------------------------------------------------------------
(* access_data *)

(* num_tag without the block offset shift *)
num_tagNoOffset(addr) == ShiftRight(addr, S_temp)

(* unsigned long num_tag = addr >> (S_temp + B_temp); *)
num_tag(addr) == ShiftRight(addr, S_temp + B_temp)

(* unsigned long num_set = setMask & (addr >> B_temp); *)
num_set(addr) == BitAnd(setMask, ShiftRight(addr, B_temp))

(* the hit loop without the tag comparison *)
RECURSIVE FindHitAnyValid(_, _, _)
FindHitAnyValid(set_cache, tag, idx) ==
    IF idx >= K THEN -1
    ELSE IF set_cache[idx].validBits # 0 THEN idx
         ELSE FindHitAnyValid(set_cache, tag, idx + 1)

(* the hit loop stopping after the first line of the set *)
RECURSIVE FindHitFirstOnly(_, _, _)
FindHitFirstOnly(set_cache, tag, idx) ==
    IF idx >= 1 THEN -1
    ELSE IF set_cache[idx].tagBits = tag /\ set_cache[idx].validBits # 0
         THEN idx
         ELSE FindHitFirstOnly(set_cache, tag, idx + 1)

(* the hit loop: the first idx with the tag and the valid bit, or -1 *)
RECURSIVE FindHit(_, _, _)
FindHit(set_cache, tag, idx) ==
    IF idx >= K THEN -1
    ELSE IF set_cache[idx].tagBits = tag /\ set_cache[idx].validBits # 0
         THEN idx
         ELSE FindHit(set_cache, tag, idx + 1)

(* the inv loop without its break: the last idx whose valid bit is clear *)
RECURSIVE FindInvalidLast(_, _)
FindInvalidLast(set_cache, idx) ==
    IF idx >= K THEN -1
    ELSE IF FindInvalidLast(set_cache, idx + 1) # -1
         THEN FindInvalidLast(set_cache, idx + 1)
         ELSE IF set_cache[idx].validBits = 0 THEN idx ELSE -1

(* the inv loop: the first idx whose valid bit is clear, or -1 *)
RECURSIVE FindInvalid(_, _)
FindInvalid(set_cache, idx) ==
    IF idx >= K THEN -1
    ELSE IF set_cache[idx].validBits = 0 THEN idx
         ELSE FindInvalid(set_cache, idx + 1)

(* the LRU victim loop with the comparison reversed *)
RECURSIVE LruVictimHighest(_, _, _, _)
LruVictimHighest(set_cache, idx, lowest_count, lowest_count_idx) ==
    IF idx >= K THEN lowest_count_idx
    ELSE IF lowest_count < set_cache[idx].countBlock
         THEN LruVictimHighest(set_cache, idx + 1, set_cache[idx].countBlock, idx)
         ELSE LruVictimHighest(set_cache, idx + 1, lowest_count, lowest_count_idx)

(* the LRU victim loop comparing with >= *)
RECURSIVE LruVictimLastMin(_, _, _, _)
LruVictimLastMin(set_cache, idx, lowest_count, lowest_count_idx) ==
    IF idx >= K THEN lowest_count_idx
    ELSE IF lowest_count >= set_cache[idx].countBlock
         THEN LruVictimLastMin(set_cache, idx + 1, set_cache[idx].countBlock, idx)
         ELSE LruVictimLastMin(set_cache, idx + 1, lowest_count, lowest_count_idx)

(* the LRU victim loop, from (idx, lowest_count, lowest_count_idx) *)
RECURSIVE LruVictim(_, _, _, _)
LruVictim(set_cache, idx, lowest_count, lowest_count_idx) ==
    IF idx >= K THEN lowest_count_idx
    ELSE IF lowest_count > set_cache[idx].countBlock
         THEN LruVictim(set_cache, idx + 1, set_cache[idx].countBlock, idx)
         ELSE LruVictim(set_cache, idx + 1, lowest_count, lowest_count_idx)

(* the FIFO victim loop, from (idx, recent) *)
RECURSIVE FifoVictim(_, _, _)
FifoVictim(set_cache, idx, recent) ==
    IF idx >= K THEN recent
    ELSE IF set_cache[recent].countBlock > set_cache[idx].countBlock
         THEN FifoVictim(set_cache, idx + 1, idx)
         ELSE FifoVictim(set_cache, idx + 1, recent)

(* LRU hit that leaves countBlock alone *)
LruHitNoTouch(st, set, idx) ==
    [st EXCEPT !.hit_count = @ + 1,
               !.num_lru = Incr(@),
               !.outs = Append(@, "Hit")]

(* LRU hit: ++hit_count; countBlock = ++num_lru; *)
LruHit(st, set, idx) ==
    [st EXCEPT !.hit_count = @ + 1,
               !.num_lru = Incr(@),
               !.cache[set][idx].countBlock = Incr(st.num_lru),
               !.outs = Append(@, "Hit")]

(* LRU miss with a free line that forgets the valid bit *)
LruFillNoValid(st, set, inv, tag) ==
    [st EXCEPT !.miss_count = @ + 1,
               !.num_lru = Incr(@),
               !.cache[set][inv] =
                   [tagBits |-> tag, countBlock |-> Incr(st.num_lru),
                    validBits |-> 0],
               !.outs = Append(@, "Miss")]

(* LRU miss with a free line *)
LruFill(st, set, inv, tag) ==
    [st EXCEPT !.miss_count = @ + 1,
               !.num_lru = Incr(@),
               !.cache[set][inv] =
                   [tagBits |-> tag, countBlock |-> Incr(st.num_lru),
                    validBits |-> 1],
               !.outs = Append(@, "Miss")]

(* LRU miss in a full set that forgets ++eviction_count *)
LruEvictNoCount(st, set, tag) ==
    LET set_cache == st.cache[set]
        lowest_count_idx ==
            LruVictim(set_cache, 0, set_cache[0].countBlock, 0)
    IN  [st EXCEPT !.miss_count = @ + 1,
                   !.num_lru = Incr(@),
                   !.cache[set][lowest_count_idx].countBlock = Incr(st.num_lru),
                   !.cache[set][lowest_count_idx].tagBits = tag,
                   !.outs = Append(@, "MissEvict")]

(* LRU miss in a full set *)
LruEvict(st, set, tag) ==
    LET set_cache == st.cache[set]
        lowest_count_idx ==
            LruVictim(set_cache, 0, set_cache[0].countBlock, 0)
    IN  [st EXCEPT !.miss_count = @ + 1,
                   !.eviction_count = @ + 1,
                   !.num_lru = Incr(@),
                   !.cache[set][lowest_count_idx].countBlock = Incr(st.num_lru),
                   !.cache[set][lowest_count_idx].tagBits = tag,
                   !.outs = Append(@, "MissEvict")]

(* FIFO hit that stamps the line as the LRU hit does *)
FifoHitTouch(st, set, idx) ==
    [st EXCEPT !.hit_count = @ + 1,
               !.num_fifo = Incr(@),
               !.cache[set][idx].countBlock = Incr(st.num_fifo),
               !.outs = Append(@, "Hit")]

(* FIFO hit: ++hit_count; *)
FifoHit(st, set, idx) ==
    [st EXCEPT !.hit_count = @ + 1,
               !.outs = Append(@, "Hit")]

(* FIFO miss with a free line that forgets the valid bit *)
FifoFillNoValid(st, set, inv, tag) ==
    [st EXCEPT !.miss_count = @ + 1,
               !.num_fifo = Incr(@),
               !.cache[set][inv] =
                   [tagBits |-> tag, countBlock |-> Incr(st.num_fifo),
                    validBits |-> 0],
               !.outs = Append(@, "Miss")]

(* FIFO miss with a free line *)
FifoFill(st, set, inv, tag) ==
    [st EXCEPT !.miss_count = @ + 1,
               !.num_fifo = Incr(@),
               !.cache[set][inv] =
                   [tagBits |-> tag, countBlock |-> Incr(st.num_fifo),
                    validBits |-> 1],
               !.outs = Append(@, "Miss")]

(* FIFO miss in a full set that counts no miss *)
FifoEvictNoMiss(st, set, tag) ==
    LET recent == FifoVictim(st.cache[set], 0, 0)
    IN  [st EXCEPT !.eviction_count = @ + 1,
                   !.num_fifo = Incr(@),
                   !.cache[set][recent] =
                       [tagBits |-> tag, countBlock |-> Incr(st.num_fifo),
                        validBits |-> 1],
                   !.outs = Append(@, "MissEvict")]

(* FIFO miss in a full set *)
FifoEvict(st, set, tag) ==
    LET recent == FifoVictim(st.cache[set], 0, 0)
    IN  [st EXCEPT !.miss_count = @ + 1,
                   !.eviction_count = @ + 1,
                   !.num_fifo = Incr(@),
                   !.cache[set][recent] =
                       [tagBits |-> tag, countBlock |-> Incr(st.num_fifo),
                        validBits |-> 1],
                   !.outs = Append(@, "MissEvict")]

(* access_data(addr) with the global policy equal to p *)
access_data(st, p, addr) ==
    LET tag == num_tag(addr)
        set == num_set(addr)
        set_cache == st.cache[set]
        hit == FindHit(set_cache, tag, 0)
        inv == FindInvalid(set_cache, 0)
    IN  IF p = LRU THEN
            IF hit # -1 THEN LruHit(st, set, hit)
            ELSE IF inv # -1 THEN LruFill(st, set, inv, tag)
            ELSE LruEvict(st, set, tag)
        ELSE IF p = FIFO THEN
            IF hit # -1 THEN FifoHit(st, set, hit)
            ELSE IF inv # -1 THEN FifoFill(st, set, inv, tag)
            ELSE FifoEvict(st, set, tag)
        ELSE st

(* consecutive access_data calls, one per element of cs *)
RECURSIVE RunCalls(_, _, _)
RunCalls(st, p, cs) ==
    IF cs = <<>> THEN st
    ELSE RunCalls(access_data(st, p, Head(cs)), p, Tail(cs))

----------------------------------------------------------------------------
(* replay_trace *)

(* for (idx = address; idx < address + size; ++idx)
       if (idx == address || idx % B == 0) access_data(idx);
   with end = address + size already reduced to the width of unsigned long *)
RECURSIVE LoopCalls(_, _, _)
LoopCalls(address, idx, end) ==
    IF idx < end
    THEN (IF idx = address \/ idx % B = 0 THEN <<idx>> ELSE <<>>)
         \o LoopCalls(address, idx + 1, end)
    ELSE <<>>

(* the access_data arguments of one L or S record *)
LineCalls(address, size) ==
    IF size > 1
    THEN LoopCalls(address, address, (address + size) % AddrMod)
    ELSE <<address>>

(* access_data(idx); access_data(idx); for every selected idx of an M record *)
RECURSIVE Twice(_)
Twice(cs) ==
    IF cs = <<>> THEN <<>>
    ELSE <<Head(cs), Head(cs)>> \o Twice(Tail(cs))

ModifyCalls(address, size) == Twice(LineCalls(address, size))

----------------------------------------------------------------------------
(* fscanf(trace_fp, " %c %lx,%ld", &trace_cmd, &address, &size) on a file   *)
(* given as its sequence of characters.  The files of the model hold no     *)
(* sign and no 0x prefix in front of a number.                              *)

NL == "\n"

(* isspace *)
IsSpace(ch) == ch \in {" ", NL, "\t"}

HexDigits ==
    <<"0", "1", "2", "3", "4", "5", "6", "7", "8", "9",
      "a", "b", "c", "d", "e", "f">>

UpperHexDigits == <<"A", "B", "C", "D", "E", "F">>

(* the value of the digit ch in the base, or -1 when ch is no such digit *)
DigitVal(ch, base) ==
    IF \E i \in 1 .. base : HexDigits[i] = ch
    THEN (CHOOSE i \in 1 .. base : HexDigits[i] = ch) - 1
    ELSE IF base = 16 /\ \E i \in 1 .. 6 : UpperHexDigits[i] = ch
    THEN (CHOOSE i \in 1 .. 6 : UpperHexDigits[i] = ch) + 9
    ELSE -1

(* a white-space directive: the first position at or after p that holds no
   white space *)
RECURSIVE SkipSpace(_, _)
SkipSpace(f, p) ==
    IF p <= Len(f) /\ IsSpace(f[p]) THEN SkipSpace(f, p + 1) ELSE p

(* the longest run of digits from p: where it ends, its value, its length *)
RECURSIVE ScanDigits(_, _, _, _, _)
ScanDigits(f, p, base, acc, n) ==
    IF p <= Len(f) /\ DigitVal(f[p], base) # -1
    THEN ScanDigits(f, p + 1, base, acc * base + DigitVal(f[p], base), n + 1)
    ELSE [pos |-> p, value |-> acc, digits |-> n]

(* the return value n (-1 for EOF), the position the stream is left at and,
   when n = 3, the three fields; %lx saturates at ULONG_MAX *)
fscanf(f, p) ==
    LET p1 == SkipSpace(f, p)
        a == ScanDigits(f, SkipSpace(f, p1 + 1), 16, 0, 0)
        s == ScanDigits(f, SkipSpace(f, a.pos + 1), 10, 0, 0)
        none == [trace_cmd |-> "", address |-> 0, size |-> 0]
    IN  IF p1 > Len(f) THEN [n |-> -1, pos |-> p1] @@ none
        ELSE IF a.digits = 0 THEN [n |-> 1, pos |-> a.pos] @@ none
        ELSE IF a.pos > Len(f) \/ f[a.pos] # "," THEN [n |-> 2, pos |-> a.pos] @@ none
        ELSE IF s.digits = 0 THEN [n |-> 2, pos |-> s.pos] @@ none
        ELSE [n |-> 3, pos |-> s.pos, trace_cmd |-> f[p1],
              address |-> IF a.value >= AddrMod THEN AddrMod - 1 ELSE a.value,
              size |-> s.value]

(* the access_data calls of the body of the loop of replay_trace *)
RecordCalls(trace_cmd, address, size) ==
    IF trace_cmd = "L" \/ trace_cmd = "S" THEN LineCalls(address, size)
    ELSE IF trace_cmd = "M" THEN ModifyCalls(address, size)
    ELSE <<>>

----------------------------------------------------------------------------
(* parse_arguments *)

(* atoi(optarg) for the option arguments of the model: 0 for text that does
   not start with a number *)
atoi(optarg) ==
    CASE optarg = "-1" -> -1
      [] optarg = "0" -> 0
      [] optarg = "1" -> 1
      [] optarg = "2" -> 2
      [] optarg = "3" -> 3
      [] OTHER -> 0

(* __builtin_ctz(x) for x # 0; a negative int has the trailing zeros of -x *)
RECURSIVE ctz(_)
ctz(x) ==
    IF x < 0 THEN ctz(-x)
    ELSE IF x % 2 = 1 THEN 0 ELSE 1 + ctz(x \div 2)

(* __builtin_clz(x) for x # 0: the sign bit of a negative int is set *)
clz(x) == IF x < 0 THEN 0 ELSE 31 - INT_LOG2(x)

(* the values NOT_POWER2(x) can have: __builtin_clz(0) and __builtin_ctz(0)
   are undefined, so for x = 0 either *)
NOT_POWER2(x) ==
    IF x = 0 THEN BOOLEAN ELSE {clz(x) + ctz(x) # 31}

----------------------------------------------------------------------------
(* The reference cache the properties compare the program with: per set,   *)
(* the tags it holds, oldest first.  It decomposes an address into         *)
(* setIndex = (address >> blockOffsetBits) & (S - 1) and                   *)
(* tag = address >> (setIndexBits + blockOffsetBits); under LRU a hit      *)
(* moves the tag to the end of its list, under FIFO it does not.           *)

setIndexBits == INT_LOG2(S)
blockOffsetBits == INT_LOG2(B)

RefSetIndex(addr) == BitAnd(ShiftRight(addr, blockOffsetBits), S - 1)
RefTag(addr) == ShiftRight(addr, setIndexBits + blockOffsetBits)

RefInit(nsets) ==
    [sets |-> [set \in 0 .. (nsets - 1) |-> <<>>],
     hits |-> 0, misses |-> 0, evictions |-> 0, outs |-> <<>>]

Without(q, t) == SelectSeq(q, LAMBDA x : x # t)

RefAccess(r, p, addr) ==
    LET set == RefSetIndex(addr)
        tag == RefTag(addr)
        q == r.sets[set]
    IN  IF \E i \in 1 .. Len(q) : q[i] = tag
        THEN [r EXCEPT !.hits = @ + 1,
                       !.sets[set] =
                           IF p = LRU THEN Append(Without(q, tag), tag) ELSE q,
                       !.outs = Append(@, "Hit")]
        ELSE IF Len(q) < K
        THEN [r EXCEPT !.misses = @ + 1,
                       !.sets[set] = Append(q, tag),
                       !.outs = Append(@, "Miss")]
        ELSE [r EXCEPT !.misses = @ + 1,
                       !.evictions = @ + 1,
                       !.sets[set] = Append(Tail(q), tag),
                       !.outs = Append(@, "MissEvict")]

RECURSIVE RefRun(_, _, _)
RefRun(r, p, cs) ==
    IF cs = <<>> THEN r
    ELSE RefRun(RefAccess(r, p, Head(cs)), p, Tail(cs))

----------------------------------------------------------------------------
(* The cache with an independent clock per set: access_data, with the clock *)
(* of the target set in the place of the global clock.                      *)

PerSetInit(nsets, nlines) ==
    [cache |-> EmptyCache(nsets, nlines),
     clock |-> [set \in 0 .. (nsets - 1) |-> 1],
     miss_count |-> 0, hit_count |-> 0, eviction_count |-> 0,
     outs |-> <<>>]

PerSetAccess(ps, p, addr) ==
    LET set == num_set(addr)
        st == access_data([cache |-> ps.cache,
                           num_fifo |-> ps.clock[set],
                           num_lru |-> ps.clock[set],
                           miss_count |-> ps.miss_count,
                           hit_count |-> ps.hit_count,
                           eviction_count |-> ps.eviction_count,
                           outs |-> ps.outs], p, addr)
    IN  [cache |-> st.cache,
         clock |-> [ps.clock EXCEPT
                       ![set] = IF p = LRU THEN st.num_lru ELSE st.num_fifo],
         miss_count |-> st.miss_count,
         hit_count |-> st.hit_count,
         eviction_count |-> st.eviction_count,
         outs |-> st.outs]

RECURSIVE PerSetRun(_, _, _)
PerSetRun(ps, p, cs) ==
    IF cs = <<>> THEN ps
    ELSE PerSetRun(PerSetAccess(ps, p, Head(cs)), p, Tail(cs))

----------------------------------------------------------------------------
(* Initial states: the globals after parse_arguments accepted a geometry   *)
(* with S and B powers of two, and after allocate_cache.                   *)

Geometries == {<<1, 1>>, <<2, 1>>, <<1, 2>>}

NoRecord == [op |-> "none", address |-> 0, size |-> 0]

InitProgram ==
    /\ \E g \in Geometries : S = g[1] /\ B = g[2]
    /\ K \in 1 .. MaxK
    /\ policy \in {FIFO, LRU}
    /\ S_temp = 0
    /\ B_temp = INT_LOG2(B)
    /\ setMask = S - 1
    /\ cache = EmptyCache(S, K)
    /\ num_fifo = 1
    /\ num_lru = 1
    /\ miss_count = 0
    /\ hit_count = 0
    /\ eviction_count = 0
    /\ rec = NoRecord
    /\ calls = <<>>
    /\ outs = <<>>
    /\ ncalls = 0
    /\ ref = RefInit(S)
    /\ verbose = 0
    /\ trace_fp = 1
    /\ ctl = "replay_trace"
    /\ status = 0
    /\ nopts = 0
    /\ handles = <<"open">>
    /\ heap = Allocated(S)
    /\ before = cache
    /\ perset = PerSetInit(S, K)

Init ==
    /\ InitProgram
    /\ trace = <<>>
    /\ pc = 1
    /\ file = <<>>
    /\ pos = 1

(* the first n tags of every set, at every block offset *)
FirstTags(n) == 0 .. (n * S * B - 1)

(* addresses of the free input: one tag more than a set can hold *)
InputAddrs == FirstTags(MaxK + 1)

(* option arguments: numbers and text for -S, -K and -B; policy names; the
   name of a readable trace file and of a file that cannot be opened *)
NumArgs == {"-1", "0", "1", "2", "3", "x"}

PolicyArgs == {"FIFO", "LRU", "XYZ"}

FileArgs == {"trace", "missing"}

(* addresses of the runs that wrap the clock: three tags of set 0 and, with
   two sets, one tag of set 1 *)
ClockAddrs == {0, S, 2 * S} \cup (IF S > 1 THEN {1} ELSE {})

(* addresses of free trace records: the first two tags, and an address two
   bytes below the top of the address space *)
RecordAddrs == FirstTags(2) \cup {AddrMod - 2}

----------------------------------------------------------------------------
(* Actions *)

(* the access_data calls cs, issued for the record r *)
Issue(r, cs) ==
    LET st == RunCalls(State, policy, cs)
    IN  /\ cache' = st.cache
        /\ num_fifo' = st.num_fifo
        /\ num_lru' = st.num_lru
        /\ miss_count' = st.miss_count
        /\ hit_count' = st.hit_count
        /\ eviction_count' = st.eviction_count
        /\ outs' = st.outs
        /\ calls' = cs
        /\ ncalls' = ncalls + Len(cs)
        /\ rec' = r
        /\ ref' = RefRun([ref EXCEPT !.outs = <<>>], policy, cs)
        /\ perset' = PerSetRun([perset EXCEPT !.outs = <<>>], policy, cs)
        /\ UNCHANGED geometry

(* one call access_data(addr) *)
AccessData ==
    /\ trace = <<>>
    /\ ncalls < MaxAccesses
    /\ \E addr \in InputAddrs :
          Issue([op |-> "call", address |-> addr, size |-> 1], <<addr>>)
    /\ UNCHANGED <<trace, pc, process, input, before>>

(* one iteration of the loop of replay_trace on an L or S record *)
ReplayLoadStore ==
    /\ trace = <<>>
    /\ \E trace_cmd \in {"L", "S"}, address \in RecordAddrs, size \in 0 .. MaxSize :
          /\ ncalls + Len(LineCalls(address, size)) <= MaxReplayCalls
          /\ Issue([op |-> trace_cmd, address |-> address, size |-> size],
                   LineCalls(address, size))
    /\ UNCHANGED <<trace, pc, process, input, before>>

(* one iteration of the loop of replay_trace on an M record *)
ReplayModify ==
    /\ trace = <<>>
    /\ \E address \in RecordAddrs, size \in 0 .. MaxSize :
          /\ ncalls + Len(ModifyCalls(address, size)) <= MaxReplayCalls
          /\ Issue([op |-> "M", address |-> address, size |-> size],
                   ModifyCalls(address, size))
    /\ UNCHANGED <<trace, pc, process, input, before>>

(* one call access_data(addr) of a run long enough to wrap the clock *)
AccessClock ==
    /\ trace = <<>>
    /\ ncalls < MaxClockCalls
    /\ \E addr \in ClockAddrs :
          Issue([op |-> "call", address |-> addr, size |-> 1], <<addr>>)
    /\ before' = cache
    /\ UNCHANGED <<trace, pc, process, input>>

(* one iteration of the loop of replay_trace: fscanf returned 3 *)
ReplayRecord ==
    /\ ctl = "replay_trace"
    /\ LET r == fscanf(file, pos)
       IN  /\ r.n = 3
           /\ pos' = r.pos
           /\ Issue([op |-> r.trace_cmd, address |-> r.address, size |-> r.size],
                    RecordCalls(r.trace_cmd, r.address, r.size))
    /\ UNCHANGED <<trace, pc, file, before>>
    /\ UNCHANGED <<verbose, trace_fp, ctl, status, nopts, handles, heap>>

(* fscanf returned another value: the loop ends and replay_trace returns *)
ReplayEnd ==
    /\ ctl = "replay_trace"
    /\ fscanf(file, pos).n # 3
    /\ pos' = fscanf(file, pos).pos
    /\ ctl' = "free_cache"
    /\ UNCHANGED <<geometry, cache, num_fifo, num_lru, miss_count, hit_count,
                   eviction_count, trace, pc, rec, calls, outs, ncalls, ref,
                   perset, before, file>>
    /\ UNCHANGED <<verbose, trace_fp, status, nopts, handles, heap>>

(* what parse_arguments and the statements of main after replay_trace leave
   alone *)
simulation ==
    <<cache, num_fifo, num_lru, miss_count, hit_count, eviction_count, trace,
      pc, calls, outs, ncalls, ref, perset, before, file, pos, setMask, S_temp>>

(* exit(code) *)
Exit(code) ==
    /\ ctl' = "exited"
    /\ status' = code

(* getopt returned an option: the guard of every case of the switch *)
Getopt(opt, optarg) ==
    /\ ctl = "parse_arguments"
    /\ nopts < MaxArgs
    /\ nopts' = nopts + 1
    /\ rec' = [op |-> opt, arg |-> optarg]

(* case 'S' *)
GetoptS ==
    /\ \E optarg \in NumArgs :
          /\ Getopt("-S", optarg)
          /\ S' = atoi(optarg)
          /\ \E notpower2 \in NOT_POWER2(atoi(optarg)) :
                IF notpower2 THEN Exit(1) ELSE UNCHANGED <<ctl, status>>
    /\ UNCHANGED <<K, B, policy, B_temp, verbose, trace_fp, handles, heap>>
    /\ UNCHANGED simulation

(* case 'K' *)
GetoptK ==
    /\ \E optarg \in NumArgs :
          /\ Getopt("-K", optarg)
          /\ K' = atoi(optarg)
    /\ UNCHANGED <<S, B, policy, B_temp, verbose, trace_fp, ctl, status,
                   handles, heap>>
    /\ UNCHANGED simulation

(* case 'B' *)
GetoptB ==
    /\ \E optarg \in NumArgs :
          /\ Getopt("-B", optarg)
          /\ B' = atoi(optarg)
    /\ UNCHANGED <<S, K, policy, B_temp, verbose, trace_fp, ctl, status,
                   handles, heap>>
    /\ UNCHANGED simulation

(* case 'p' *)
GetoptP ==
    /\ \E optarg \in PolicyArgs :
          /\ Getopt("-p", optarg)
          /\ policy' = IF optarg = "LRU" THEN LRU
                       ELSE IF optarg = "FIFO" THEN FIFO
                       ELSE policy
    /\ UNCHANGED <<S, K, B, B_temp, verbose, trace_fp, ctl, status, handles,
                   heap>>
    /\ UNCHANGED simulation

(* case 't': fopen returns a new stream, or NULL *)
GetoptT ==
    /\ \E optarg \in FileArgs :
          /\ Getopt("-t", optarg)
          /\ IF optarg = "trace"
             THEN /\ handles' = Append(handles, "open")
                  /\ trace_fp' = Len(handles) + 1
                  /\ UNCHANGED <<ctl, status>>
             ELSE /\ trace_fp' = 0
                  /\ Exit(1)
                  /\ UNCHANGED handles
    /\ UNCHANGED <<S, K, B, policy, B_temp, verbose, heap>>
    /\ UNCHANGED simulation

(* case 'v' *)
GetoptV ==
    /\ Getopt("-v", "")
    /\ verbose' = 1
    /\ UNCHANGED <<S, K, B, policy, B_temp, trace_fp, ctl, status, handles,
                   heap>>
    /\ UNCHANGED simulation

(* case 'h' *)
GetoptH ==
    /\ Getopt("-h", "")
    /\ Exit(0)
    /\ UNCHANGED <<S, K, B, policy, B_temp, verbose, trace_fp, handles, heap>>
    /\ UNCHANGED simulation

(* default: getopt returned '?' *)
GetoptDefault ==
    /\ Getopt("?", "")
    /\ Exit(1)
    /\ UNCHANGED <<S, K, B, policy, B_temp, verbose, trace_fp, handles, heap>>
    /\ UNCHANGED simulation

(* getopt returned -1: the check of the required arguments, and the other
   setup; c = INT_LOG2(S) assigns the local c *)
ArgsDone ==
    /\ ctl = "parse_arguments"
    /\ IF S <= 0 \/ K <= 0 \/ B <= 0 \/ policy = 0 \/ trace_fp = 0
       THEN /\ handles' = IF trace_fp # 0
                          THEN [handles EXCEPT ![trace_fp] = "closed"]
                          ELSE handles
            /\ Exit(1)
            /\ UNCHANGED B_temp
       ELSE /\ B_temp' = INT_LOG2(B)
            /\ ctl' = "allocate_cache"
            /\ UNCHANGED <<status, handles>>
    /\ UNCHANGED <<S, K, B, policy, verbose, trace_fp, nopts, heap, rec>>
    /\ UNCHANGED simulation

(* allocate_cache *)
AllocateCache ==
    /\ ctl = "allocate_cache"
    /\ cache' = EmptyCache(S, K)
    /\ setMask' = S - 1
    /\ heap' = Allocated(S)
    /\ ref' = RefInit(S)
    /\ perset' = PerSetInit(S, K)
    /\ before' = cache'
    /\ ctl' = "replay_trace"
    /\ UNCHANGED <<S, K, B, policy, S_temp, B_temp, num_fifo, num_lru,
                   miss_count, hit_count, eviction_count, trace, pc, rec,
                   calls, outs, ncalls, file, pos>>
    /\ UNCHANGED <<verbose, trace_fp, status, nopts, handles>>

(* free_cache *)
FreeCache ==
    /\ ctl = "free_cache"
    /\ heap' = Freed(heap)
    /\ ctl' = "fclose"
    /\ UNCHANGED <<S, K, B, policy, B_temp, verbose, trace_fp, status, nopts,
                   handles, rec>>
    /\ UNCHANGED simulation

(* fclose(trace_fp) *)
CloseTrace ==
    /\ ctl = "fclose"
    /\ handles' = [handles EXCEPT ![trace_fp] = "closed"]
    /\ ctl' = "print_summary"
    /\ UNCHANGED <<S, K, B, policy, B_temp, verbose, trace_fp, status, nopts,
                   heap, rec>>
    /\ UNCHANGED simulation

(* print_summary; return 0 *)
PrintSummary ==
    /\ ctl = "print_summary"
    /\ Exit(0)
    /\ UNCHANGED <<S, K, B, policy, B_temp, verbose, trace_fp, nopts, handles,
                   heap, rec>>
    /\ UNCHANGED simulation

(* the next access of a scripted trace *)
AccessScripted ==
    /\ pc <= Len(trace)
    /\ Issue([op |-> "call", address |-> trace[pc], size |-> 1], <<trace[pc]>>)
    /\ pc' = pc + 1
    /\ UNCHANGED <<trace, process, input, before>>

----------------------------------------------------------------------------
(* Specifications *)

(* the cache under any sequence of access_data calls *)
Next == AccessData

Spec == Init /\ [][Next]_vars

(* replay_trace over any sequence of L, S and M records *)
NextReplay == ReplayLoadStore \/ ReplayModify

SpecReplay == Init /\ [][NextReplay]_vars

(* the cache of two lines per set and one byte per line, under calls enough
   to wrap the clock *)
InitClock == Init /\ B = 1 /\ K = 2

SpecClock == InitClock /\ [][AccessClock]_vars

(* replay_trace over any trace file of at most MaxLines lines *)

(* a record of one byte, a record of another line, a Modify record, an
   instruction line, a line of text, a record without its size, an empty
   line *)
LineKinds ==
    {<<" ", "L", " ", "0", ",", "1">>,
     <<" ", "S", " ", "2", ",", "1">>,
     <<" ", "M", " ", "1", ",", "2">>,
     <<"I", " ", "0", ",", "1">>,
     <<"X">>,
     <<" ", "L", " ", "1">>,
     <<>>}

(* the characters of the file with these lines *)
RECURSIVE FileOf(_)
FileOf(lines) ==
    IF lines = <<>> THEN <<>>
    ELSE Head(lines) \o <<NL>> \o FileOf(Tail(lines))

Files == {FileOf(lines) : lines \in UNION {[1 .. n -> LineKinds] : n \in 1 .. MaxLines}}

InitFile ==
    /\ InitProgram
    /\ trace = <<>>
    /\ pc = 1
    /\ file \in Files
    /\ pos = 1

NextFile == ReplayRecord \/ ReplayEnd

SpecFile == InitFile /\ [][NextFile]_vars

(* main, from the start of the process, on any command line of at most
   MaxArgs options; the trace file holds ' L 0,4' and ' M 1,1' *)
MainFile ==
    FileOf(<<<<" ", "L", " ", "0", ",", "4">>, <<" ", "M", " ", "1", ",", "1">>>>)

InitMain ==
    /\ S = 0 /\ K = 0 /\ B = 0 /\ policy = 0
    /\ S_temp = 0 /\ B_temp = 0
    /\ setMask = 0
    /\ cache = <<>>
    /\ num_fifo = 1 /\ num_lru = 1
    /\ miss_count = 0 /\ hit_count = 0 /\ eviction_count = 0
    /\ verbose = 0
    /\ trace_fp = 0
    /\ ctl = "parse_arguments"
    /\ status = 0
    /\ nopts = 0
    /\ handles = <<>>
    /\ heap = NoHeap
    /\ file = MainFile
    /\ pos = 1
    /\ rec = NoRecord /\ calls = <<>> /\ outs = <<>> /\ ncalls = 0
    /\ ref = RefInit(0) /\ perset = PerSetInit(0, 0) /\ before = <<>>
    /\ trace = <<>> /\ pc = 1

NextMain ==
    \/ GetoptS \/ GetoptK \/ GetoptB \/ GetoptP \/ GetoptT \/ GetoptV
    \/ GetoptH \/ GetoptDefault \/ ArgsDone
    \/ AllocateCache \/ ReplayRecord \/ ReplayEnd
    \/ FreeCache \/ CloseTrace \/ PrintSummary

SpecMain == InitMain /\ [][NextMain]_vars

(* scripted traces of single accesses *)

(* every trace of at most MaxScript accesses to the first three tags *)
GenericTraces ==
    UNION {[1 .. n -> FirstTags(3)] : n \in 1 .. MaxScript}

(* one address, repeated *)
RepeatTraces ==
    {[i \in 1 .. n |-> a] : a \in InputAddrs \cup {AddrMod - 1},
                            n \in 1 .. (MaxScript + 2)}

(* two addresses of one set with different tags, in turn *)
AlternatingTraces ==
    {[i \in 1 .. n |-> IF i % 2 = 1 THEN ab[1] ELSE ab[2]] :
        ab \in {x \in InputAddrs \X InputAddrs :
                   /\ RefSetIndex(x[1]) = RefSetIndex(x[2])
                   /\ RefTag(x[1]) # RefTag(x[2])},
        n \in 2 .. (MaxScript + 2)}

(* A, B, C, A, D: four different tags of one set *)
PatternTraces ==
    {<<q[1], q[2], q[3], q[1], q[4]>> :
        q \in {x \in FirstTags(4) \X FirstTags(4) \X FirstTags(4) \X FirstTags(4) :
                  /\ \A i, j \in 1 .. 4 : RefSetIndex(x[i]) = RefSetIndex(x[j])
                  /\ \A i, j \in 1 .. 4 : i # j => RefTag(x[i]) # RefTag(x[j])}}

InitTrace ==
    /\ InitProgram
    /\ trace \in GenericTraces \cup RepeatTraces \cup AlternatingTraces
                 \cup PatternTraces
    /\ pc = 1
    /\ file = <<>>
    /\ pos = 1

SpecTrace == InitTrace /\ [][AccessScripted]_vars

(* the part of the scripted trace replayed so far *)
Replayed == SubSeq(trace, 1, pc - 1)

----------------------------------------------------------------------------
(* Observations used by the properties *)

(* the addresses the properties probe the cache with *)
Probe == InputAddrs \cup RecordAddrs \cup FirstTags(4) \cup {AddrMod - 1}

(* access_data(a) would hit *)
Cached(a) == FindHit(cache[num_set(a)], num_tag(a), 0) # -1

(* the line that holds a *)
LineOf(a) == cache[num_set(a)][FindHit(cache[num_set(a)], num_tag(a), 0)]

(* the reference cache holds a, and where in its list *)
RefCached(a) ==
    \E i \in 1 .. Len(ref.sets[RefSetIndex(a)]) :
        ref.sets[RefSetIndex(a)][i] = RefTag(a)

RefPos(a) ==
    CHOOSE i \in 1 .. Len(ref.sets[RefSetIndex(a)]) :
        ref.sets[RefSetIndex(a)][i] = RefTag(a)

ValidLines(set) == {idx \in 0 .. (K - 1) : cache[set][idx].validBits # 0}

(* the cache holds the lines of the reference list, in the order of the list *)
ContentsMatchRef ==
    /\ \A a \in Probe : Cached(a) <=> RefCached(a)
    /\ \A set \in 0 .. (S - 1) :
          Cardinality(ValidLines(set)) = Len(ref.sets[set])
    /\ LET held == {a \in Probe : Cached(a)}
       IN  \A a, b \in held :
              RefSetIndex(a) = RefSetIndex(b)
                  => ((LineOf(a).countBlock < LineOf(b).countBlock)
                         <=> (RefPos(a) < RefPos(b)))

----------------------------------------------------------------------------
(* C1: under LRU, after every access the cache holds exactly the lines of a
   per-set recency list (least recently used first) and orders them as the
   list does, so a miss in a full set overwrites the line whose most recent
   access is the earliest. *)
C1_LruRecencyList == policy = LRU => ContentsMatchRef

(* an LRU eviction that spared the older line because it had been hit *)
C1_Witness ==
    /\ policy = LRU /\ K = 2 /\ S = 1
    /\ hit_count = 1 /\ miss_count = 3 /\ eviction_count = 1
    /\ outs = <<"MissEvict">>
    /\ cache[0][1].countBlock = num_lru
    /\ cache[0][0].countBlock = num_lru - 1

(* C2: under FIFO, after every access the cache holds exactly the lines of a
   per-set insertion queue in insertion order, so a miss in a full set
   overwrites the earliest inserted line whatever was hit since; and a FIFO
   hit changes no line and no clock, only the hit counter. *)
C2_FifoInsertionOrder ==
    /\ [](policy = FIFO => ContentsMatchRef)
    /\ [][(policy = FIFO /\ outs' = <<"Hit">>)
            => /\ cache' = cache
               /\ num_fifo' = num_fifo
               /\ num_lru' = num_lru
               /\ hit_count' = hit_count + 1
               /\ miss_count' = miss_count
               /\ eviction_count' = eviction_count]_vars

(* a FIFO eviction of the earliest inserted line after a hit *)
C2_Witness ==
    /\ policy = FIFO /\ K = 2 /\ S = 1
    /\ hit_count = 1 /\ miss_count = 3 /\ eviction_count = 1
    /\ outs = <<"MissEvict">>
    /\ cache[0][0].countBlock = num_fifo
    /\ cache[0][1].countBlock = num_fifo - 1

(* C3: the outcome of every access and the three counters equal those of the
   reference cache, which takes setIndex = (address >> blockOffsetBits) &
   (S - 1) and tag = address >> (setIndexBits + blockOffsetBits). *)
C3_MatchesReference ==
    /\ outs = ref.outs
    /\ hit_count = ref.hits
    /\ miss_count = ref.misses
    /\ eviction_count = ref.evictions

(* two sets, and a hit, a fill and an eviction among the accesses *)
C3_Witness ==
    /\ S = 2
    /\ hit_count >= 1 /\ eviction_count >= 1
    /\ outs = <<"MissEvict">>

(* the accesses replayed so far, at least one, all went to one address *)
RepeatedSoFar ==
    /\ pc > 1
    /\ \A i \in 1 .. (pc - 1) : trace[i] = trace[1]

(* C4: from the fresh cache, N >= 1 accesses to one address give exactly
   1 miss, N - 1 hits and no eviction, for every geometry and policy. *)
C4_RepeatOneMiss ==
    RepeatedSoFar
        => /\ miss_count = 1
           /\ hit_count = pc - 2
           /\ eviction_count = 0

(* one address accessed five times *)
C4_Witness == RepeatedSoFar /\ pc = 6

OtherPolicy == IF policy = LRU THEN FIFO ELSE LRU

(* C5: with K = 1 the run under the other policy has, after every access,
   the same counters, the same outcome of the last access and the same tag
   and valid bit in every line. *)
C5_PoliciesAgreeDirectMapped ==
    K = 1 =>
        LET o == RunCalls(InitState(S, K), OtherPolicy, Replayed)
        IN  /\ o.hit_count = hit_count
            /\ o.miss_count = miss_count
            /\ o.eviction_count = eviction_count
            /\ pc > 1 => o.outs[Len(o.outs)] = outs[1]
            /\ \A set \in 0 .. (S - 1) :
                  /\ o.cache[set][0].tagBits = cache[set][0].tagBits
                  /\ o.cache[set][0].validBits = cache[set][0].validBits

(* a direct-mapped run with a hit and an eviction *)
C5_Witness ==
    /\ K = 1 /\ pc >= 4
    /\ hit_count >= 1 /\ eviction_count >= 1

(* C6: in an M record every selected address is accessed twice in a row and
   the second access is a hit, whatever the first was; so an M record with
   one selected address that is not cached counts exactly 1 miss and 1 hit. *)
C6_ModifySecondHits ==
    /\ [](rec.op = "M" =>
            /\ Len(calls) % 2 = 0
            /\ \A i \in 1 .. Len(calls) :
                  i % 2 = 0 => calls[i] = calls[i - 1] /\ outs[i] = "Hit")
    /\ [][(rec'.op = "M" /\ Len(calls') = 2 /\ ~Cached(calls'[1]))
            => /\ miss_count' = miss_count + 1
               /\ hit_count' = hit_count + 1
               /\ outs' \in {<<"Miss", "Hit">>, <<"MissEvict", "Hit">>}]_vars

(* an M record whose first access evicted a line *)
C6_Witness == rec.op = "M" /\ outs = <<"MissEvict", "Hit">>

(* the cache lines that hold a byte of [address, address + length) *)
LinesOverlapped(address, length) ==
    {x \div B : x \in {y \in address .. (address + length - 1) : y < AddrMod}}

(* C7: an L or S record issues one access_data call for each cache line its
   byte range [address, address + length) overlaps, in ascending order.
   Stated for the records of length >= 1. *)
C7_OneCallPerLine ==
    (rec.op \in {"L", "S"} /\ rec.size >= 1) =>
        /\ Len(calls) = Cardinality(LinesOverlapped(rec.address, rec.size))
        /\ {calls[i] \div B : i \in 1 .. Len(calls)}
               = LinesOverlapped(rec.address, rec.size)
        /\ \A i, j \in 1 .. Len(calls) : i < j => calls[i] < calls[j]

(* C7 restricted to the records whose range ends below the top of the
   address space *)
C7_BelowTop ==
    (rec.op \in {"L", "S"} /\ rec.size >= 1
        /\ rec.address + rec.size < AddrMod) =>
        /\ Len(calls) = Cardinality(LinesOverlapped(rec.address, rec.size))
        /\ {calls[i] \div B : i \in 1 .. Len(calls)}
               = LinesOverlapped(rec.address, rec.size)
        /\ \A i, j \in 1 .. Len(calls) : i < j => calls[i] < calls[j]

(* C8: the hits and misses add up to the number of calls and the evictions
   never exceed the misses; a call adds 1 to exactly one of hit_count and
   miss_count, adds 1 to eviction_count only when it misses in a set without
   an invalid line, and lowers no counter. *)
C8_Counters ==
    /\ [](/\ hit_count + miss_count = ncalls
          /\ eviction_count <= miss_count
          /\ hit_count >= 0 /\ miss_count >= 0 /\ eviction_count >= 0)
    /\ [][Len(calls') = 1 =>
            /\ \/ hit_count' = hit_count + 1 /\ miss_count' = miss_count
               \/ hit_count' = hit_count /\ miss_count' = miss_count + 1
            /\ eviction_count' \in {eviction_count, eviction_count + 1}
            /\ eviction_count' = eviction_count + 1 =>
                  /\ miss_count' = miss_count + 1
                  /\ FindInvalid(cache[num_set(calls'[1])], 0) = -1]_vars

(* a run of MaxAccesses calls with a hit and an eviction *)
C8_Witness ==
    /\ ncalls = MaxAccesses
    /\ hit_count >= 1 /\ eviction_count >= 1

(* the trace is A, B, C, A, D, with four different tags of one set *)
IsPattern ==
    /\ Len(trace) = 5
    /\ trace[4] = trace[1]
    /\ \A i, j \in {1, 2, 3, 5} :
          /\ RefSetIndex(trace[i]) = RefSetIndex(trace[j])
          /\ i # j => RefTag(trace[i]) # RefTag(trace[j])

(* C9 as claimed: with K = 2 the access to D evicts the line holding B under
   LRU and the line holding A under FIFO. *)
C9_EvictsWithTwoLines ==
    [][(IsPattern /\ K = 2 /\ pc = 5) =>
          /\ outs' = <<"MissEvict">>
          /\ IF policy = LRU
             THEN Cached(trace[2]) /\ ~(Cached(trace[2]))'
             ELSE Cached(trace[1]) /\ ~(Cached(trace[1]))']_vars

(* C9 as amended: with K = 3 the access to D evicts the line holding B under
   LRU and the line holding A under FIFO, and no other line. *)
C9_EvictsWithThreeLines ==
    [][(IsPattern /\ K = 3 /\ pc = 5) =>
          /\ outs' = <<"MissEvict">>
          /\ Cached(trace[1]) /\ Cached(trace[2]) /\ Cached(trace[3])
          /\ (Cached(trace[5]))'
          /\ (Cached(trace[3]))'
          /\ IF policy = LRU
             THEN ~(Cached(trace[2]))' /\ (Cached(trace[1]))'
             ELSE ~(Cached(trace[1]))' /\ (Cached(trace[2]))']_vars

(* D was accessed after A, B, C, A in a set of three lines *)
C9_Witness ==
    /\ IsPattern /\ K = 3 /\ pc = 6
    /\ outs = <<"MissEvict">>

(* the accesses replayed so far, at least two, alternate between two
   addresses of one set with different tags *)
AlternatingSoFar ==
    /\ pc >= 3
    /\ RefSetIndex(trace[1]) = RefSetIndex(trace[2])
    /\ RefTag(trace[1]) # RefTag(trace[2])
    /\ \A i \in 1 .. (pc - 1) : trace[i] = trace[IF i % 2 = 1 THEN 1 ELSE 2]

(* C10: with K = 1, a trace that alternates between two addresses of one set
   with different tags misses on every access and evicts on every access
   after the first. *)
C10_AlternationAlwaysMisses ==
    (K = 1 /\ AlternatingSoFar)
        => /\ hit_count = 0
           /\ miss_count = pc - 1
           /\ eviction_count = pc - 2
           /\ outs = <<"MissEvict">>

(* five alternating accesses in a direct-mapped cache *)
C10_Witness == K = 1 /\ AlternatingSoFar /\ pc = 6

----------------------------------------------------------------------------
(* the clock of the policy in use *)
Clock == IF policy = LRU THEN num_lru ELSE num_fifo

(* the slots of a set whose valid bit is clear *)
FreeSlots(set) == {idx \in 0 .. (K - 1) : cache[set][idx].validBits = 0}

(* C13: the set index access_data uses is (address >> blockOffsetBits) &
   (S - 1), and the tag it compares with and stores into the line is
   address >> (setIndexBits + blockOffsetBits).  Stated of every call: after
   access_data(a), a valid line of set RefSetIndex(a) holds the tag
   RefTag(a). *)
C13_Decomposition ==
    Len(calls) = 1 =>
        LET a == calls[1]
        IN  /\ num_set(a) = RefSetIndex(a)
            /\ num_tag(a) = RefTag(a)
            /\ \E idx \in 0 .. (K - 1) :
                  /\ cache[RefSetIndex(a)][idx].validBits # 0
                  /\ cache[RefSetIndex(a)][idx].tagBits = RefTag(a)

(* C13 for the set index alone, and for the tag when S = 1 *)
C13_SetIndex ==
    \A a \in Addrs :
        /\ num_set(a) = RefSetIndex(a)
        /\ S = 1 => num_tag(a) = RefTag(a)

(* C14: in every set no two valid lines hold the same tag, and the set has
   at most K valid lines. *)
C14_NoDuplicateTags ==
    \A set \in 0 .. (S - 1) :
        /\ \A i, j \in ValidLines(set) :
              i # j => cache[set][i].tagBits # cache[set][j].tagBits
        /\ Cardinality(ValidLines(set)) <= K

(* a full set of three lines after an eviction *)
C14_Witness ==
    /\ K = 3 /\ eviction_count >= 1
    /\ \E set \in 0 .. (S - 1) : Cardinality(ValidLines(set)) = 3

(* C15: a miss counts an eviction exactly when the target set has no invalid
   line; when it has one, the lowest invalid slot receives the tag, becomes
   valid and gets the newly incremented clock as its order, and no other
   line of the cache changes; and a valid line never becomes invalid. *)
C15_MissFillsLowestFree ==
    /\ [][(Len(calls') = 1 /\ miss_count' = miss_count + 1) =>
            LET a == calls'[1]
                set == num_set(a)
                free == FreeSlots(set)
            IN  /\ eviction_count' = eviction_count + (IF free = {} THEN 1 ELSE 0)
                /\ free # {} =>
                      LET inv == CHOOSE idx \in free : \A j \in free : idx <= j
                      IN  /\ cache'[set][inv].tagBits = num_tag(a)
                          /\ cache'[set][inv].validBits = 1
                          /\ cache'[set][inv].countBlock = Clock'
                          /\ Clock' = (Clock + 1) % ClockMod
                          /\ \A s2 \in 0 .. (S - 1), i2 \in 0 .. (K - 1) :
                                <<s2, i2>> # <<set, inv>>
                                    => cache'[s2][i2] = cache[s2][i2]]_vars
    /\ [][\A set \in 0 .. (S - 1), idx \in 0 .. (K - 1) :
              cache[set][idx].validBits # 0
                  => cache'[set][idx].validBits # 0]_vars

(* a miss that filled the second slot of set 1 while set 0 held a line *)
C15_Witness ==
    /\ S = 2 /\ K >= 2
    /\ outs = <<"Miss">>
    /\ cache[0][0].validBits # 0
    /\ cache[1][1].validBits # 0
    /\ cache[1][1].countBlock = Clock
    /\ FreeSlots(1) = 2 .. (K - 1)

(* C16: a miss in a full set overwrites the line with the minimal order of
   the K lines of the target set, the lowest slot among those sharing the
   minimal order; only the victim's tag and order change and it stays
   valid. *)
C16_VictimIsFirstMinimal ==
    [][(Len(calls') = 1 /\ eviction_count' = eviction_count + 1) =>
          LET a == calls'[1]
              set == num_set(a)
              lines == cache[set]
              victim ==
                  CHOOSE v \in 0 .. (K - 1) :
                      \A j \in 0 .. (K - 1) :
                          \/ lines[v].countBlock < lines[j].countBlock
                          \/ /\ lines[v].countBlock = lines[j].countBlock
                             /\ v <= j
          IN  /\ lines[victim].validBits # 0
              /\ cache'[set][victim].tagBits = num_tag(a)
              /\ cache'[set][victim].tagBits # lines[victim].tagBits
              /\ cache'[set][victim].countBlock = Clock'
              /\ cache'[set][victim].validBits # 0
              /\ \A s2 \in 0 .. (S - 1), i2 \in 0 .. (K - 1) :
                    <<s2, i2>> # <<set, victim>>
                        => cache'[s2][i2] = cache[s2][i2]]_vars

(* an eviction from a set whose two lines shared their order: slot 0 was
   overwritten and slot 1 kept *)
C16_Witness ==
    /\ outs = <<"MissEvict">>
    /\ before[0][0].validBits # 0 /\ before[0][1].validBits # 0
    /\ before[0][0].countBlock = before[0][1].countBlock
    /\ cache[0][0].countBlock = Clock
    /\ cache[0][0].tagBits # before[0][0].tagBits
    /\ cache[0][1] = before[0][1]

(* C17: the policy clock never wraps: every order value written into a line
   is greater than every order value stored in the cache at that moment, so
   the valid lines of a set have pairwise different order values. *)
C17_ClockNeverWraps ==
    /\ [][/\ Clock' >= Clock
          /\ \A set \in 0 .. (S - 1), idx \in 0 .. (K - 1) :
                cache'[set][idx] # cache[set][idx] =>
                    \A s2 \in 0 .. (S - 1), i2 \in 0 .. (K - 1) :
                        cache'[set][idx].countBlock > cache[s2][i2].countBlock]_vars
    /\ [](\A set \in 0 .. (S - 1) :
             \A i, j \in ValidLines(set) :
                 i # j => cache[set][i].countBlock # cache[set][j].countBlock)

(* C17 for the runs in which the clock has been incremented less than
   ClockMod - 1 times *)
C17_BelowWrap ==
    [][ncalls' < ClockMod - 1 =>
          /\ Clock' >= Clock
          /\ \A set \in 0 .. (S - 1), idx \in 0 .. (K - 1) :
                cache'[set][idx] # cache[set][idx] =>
                    \A s2 \in 0 .. (S - 1), i2 \in 0 .. (K - 1) :
                        cache'[set][idx].countBlock > cache[s2][i2].countBlock]_vars

(* the program and the cache with a clock per set agree on the outcome of
   the last call, on the counters, and on tag, valid bit and relative order
   of the lines of every set *)
AgreesWithPerSet ==
    /\ outs = perset.outs
    /\ hit_count = perset.hit_count
    /\ miss_count = perset.miss_count
    /\ eviction_count = perset.eviction_count
    /\ \A set \in 0 .. (S - 1) :
          /\ \A i \in 0 .. (K - 1) :
                /\ cache[set][i].tagBits = perset.cache[set][i].tagBits
                /\ cache[set][i].validBits = perset.cache[set][i].validBits
          /\ \A i, j \in ValidLines(set) :
                (cache[set][i].countBlock < cache[set][j].countBlock)
                    <=> (perset.cache[set][i].countBlock
                            < perset.cache[set][j].countBlock)

(* C18: with an independent clock per set in the place of the global clock,
   the outcome of every access, the counters and the relative order of the
   lines within each set are the same, for every geometry, policy and
   trace. *)
C18_PerSetClockEquivalent == ncalls > 0 => AgreesWithPerSet

(* an eviction from set 0 after calls to both sets: the global clock is
   ahead of the clock of either set *)
C18_Witness ==
    /\ S = 2 /\ K = 2
    /\ outs = <<"MissEvict">>
    /\ perset.clock[0] = 4 /\ perset.clock[1] = 2
    /\ Clock = 5

(* x is a positive power of two *)
IsPowerOf2(x) == \E k \in 0 .. AddrBits : x = Pow2(k)

(* allocate_cache is about to run, or has run *)
CoreReached ==
    ctl \in {"allocate_cache", "replay_trace", "free_cache", "fclose",
             "print_summary"}
        \/ heap.array # "none"

(* C11: allocate_cache and replay_trace run only with S and B positive powers
   of two, K positive, the policy FIFO or LRU and a trace file open, and
   never when the last option given is a -p with another value; a process
   that ends before them without -h ends with a non-zero status. *)
C11_CoreOnlyWithValidArguments ==
    /\ CoreReached =>
          /\ IsPowerOf2(S) /\ IsPowerOf2(B) /\ K > 0
          /\ policy \in {FIFO, LRU}
          /\ trace_fp # 0
    /\ (ctl = "allocate_cache" /\ rec.op = "-p") => rec.arg \in {"FIFO", "LRU"}
    /\ (ctl = "exited" /\ ~CoreReached /\ rec.op # "-h") => status # 0

(* C11 without the power of two for B and without the unknown -p value *)
C11_CoreOnlyAfterCheck ==
    /\ CoreReached =>
          /\ IsPowerOf2(S) /\ B > 0 /\ K > 0
          /\ policy \in {FIFO, LRU}
          /\ trace_fp # 0
    /\ (ctl = "exited" /\ ~CoreReached /\ rec.op # "-h") => status # 0

(* the lines of a file *)
RECURSIVE SplitLines(_, _)
SplitLines(f, line) ==
    IF f = <<>> THEN (IF line = <<>> THEN <<>> ELSE <<line>>)
    ELSE IF Head(f) = NL THEN <<line>> \o SplitLines(Tail(f), <<>>)
    ELSE SplitLines(Tail(f), Append(line, Head(f)))

(* the line is a record: an operation, an address, a comma and a size *)
IsRecord(line) ==
    fscanf(line, 1).n = 3 /\ fscanf(line, 1).pos = Len(line) + 1

(* the access_data calls of the L, S and M records among the lines *)
RECURSIVE CallsOfRecords(_)
CallsOfRecords(lines) ==
    IF lines = <<>> THEN <<>>
    ELSE (IF IsRecord(Head(lines))
          THEN LET r == fscanf(Head(lines), 1)
               IN  RecordCalls(r.trace_cmd, r.address, r.size)
          ELSE <<>>)
         \o CallsOfRecords(Tail(lines))

(* the statistics of the file without its malformed lines *)
StatsOfRecords ==
    LET st == RunCalls(InitState(S, K), policy, CallsOfRecords(SplitLines(file, <<>>)))
    IN  <<st.hit_count, st.miss_count, st.eviction_count>>

(* C12: a malformed line changes no line of the cache and no counter, and
   the records after it are still replayed: when replay_trace returns, the
   statistics are those of the file without its malformed lines. *)
C12_MalformedLinesSkipped ==
    ctl = "free_cache" =>
        <<hit_count, miss_count, eviction_count>> = StatsOfRecords

(* C12 for the files whose lines are all records or empty *)
C12_RecordsOnly ==
    (ctl = "free_cache"
        /\ \A i \in 1 .. Len(SplitLines(file, <<>>)) :
               \/ SplitLines(file, <<>>)[i] = <<>>
               \/ IsRecord(SplitLines(file, <<>>)[i]))
        => <<hit_count, miss_count, eviction_count>> = StatsOfRecords

(* C19: when the process has ended, every stream fopen returned has been
   closed by fclose and, if the cache was allocated, the set array and every
   set have been freed exactly once. *)
C19_EverythingReleased ==
    ctl = "exited" =>
        /\ \A h \in 1 .. Len(handles) : handles[h] = "closed"
        /\ heap.array # "none" =>
              /\ heap.array = "freed"
              /\ \A set \in DOMAIN heap.sets : heap.sets[set] = 1

(* C19 for the memory alone, and for the stream trace_fp refers to when the
   process ends after the check of the required arguments *)
C19_LastStreamAndMemory ==
    ctl = "exited" =>
        /\ (rec.op \notin {"-S", "-t", "-h", "?"} /\ trace_fp # 0)
              => handles[trace_fp] = "closed"
        /\ heap.array # "none" =>
              /\ heap.array = "freed"
              /\ \A set \in DOMAIN heap.sets : heap.sets[set] = 1

(* C20: misses - evictions is the number of valid lines of the whole cache,
   and the valid lines of every set are its slots 0 .. n-1 for some n <= K. *)
C20_ValidLinesArePrefix ==
    /\ miss_count - eviction_count
           = Cardinality({x \in (0 .. (S - 1)) \X (0 .. (K - 1)) :
                             cache[x[1]][x[2]].validBits # 0})
    /\ \A set \in 0 .. (S - 1) :
          \E n \in 0 .. K : ValidLines(set) = 0 .. (n - 1)

(* two sets of two lines: set 0 full after an eviction, set 1 half full *)
C20_Witness ==
    /\ S = 2 /\ K = 2 /\ eviction_count = 1
    /\ ValidLines(0) = {0, 1}
    /\ ValidLines(1) = {0}

====
